---- MODULE Spec2Model ----
(***************************************************************************)
(* Model of src/src/main.rs (Gesture Dataset Creator):                     *)
(*   - GestureDatasetApp::update, the per-frame handler that accumulates   *)
(*     pointer input into `drawing` (the StrokeCollector of the spec) and  *)
(*     reacts to the Clear / Save buttons and the width / height sliders;  *)
(*   - save_image, the rasterizer.                                         *)
(*                                                                         *)
(* Coordinates are f32 in the source.  Here a coordinate is an integer     *)
(* number of grid units, one grid unit being 1/Scale of a source unit, and *)
(* all arithmetic of save_image is carried out exactly on these rationals. *)
(* f32 rounding is not modelled.                                           *)
(***************************************************************************)
EXTENDS Integers, Sequences, FiniteSets, TLC

VARIABLES
    drawing,        \* GestureDatasetApp.drawing : Vec<Vec<Pos2>>
    width,          \* GestureDatasetApp.width
    height,         \* GestureDatasetApp.height
    sample_count,   \* GestureDatasetApp.sample_count
    input,          \* what the last frame received: buttons clicked, pointer position
    changed,        \* response.mark_changed() was called in the last frame
    panicked,       \* the process has panicked (index out of image bounds, unwrap of None)
    img             \* the image built by the last call of save_image, NoImage if none

vars == <<drawing, width, height, sample_count, input, changed, panicked, img>>

----------------------------------------------------------------------------
(* Bounds of the model *)

Scale == 2          \* grid units per source unit
MaxCoord == 5       \* largest coordinate, in grid units
MaxPoints == 3      \* points in a sample, all strokes together
MaxStrokes == 2     \* strokes in a sample
MaxSize == 2        \* largest width / height the sliders are dragged to
MaxSamples == 1     \* saves per run

(* Program constants *)

Huge == 1000000             \* stands for the 1e32 the bounding box starts from
U32Saturated == 2147483647  \* stands for u32::MAX, what an infinite f32 casts to
DefaultWidth == 32
DefaultHeight == 32
SliderMin == 0

\* Option values: None is the empty sequence, Some(v) the sequence of v alone.
None == <<>>
NoImage == <<>>
Some(v) == <<v>>

----------------------------------------------------------------------------
(* Helpers *)

Abs(n) == IF n < 0 THEN -n ELSE n
Max2(a, b) == IF a > b THEN a ELSE b
Min2(a, b) == IF a < b THEN a ELSE b
Last(s) == s[Len(s)]

RECURSIVE SumTo(_, _)
SumTo(l, i) == IF i = 0 THEN 0 ELSE l[i] + SumTo(l, i - 1)

RECURSIVE FoldMin(_, _)
FoldMin(S, acc) ==
    IF S = {} THEN acc
    ELSE LET v == CHOOSE v \in S : TRUE IN FoldMin(S \ {v}, Min2(v, acc))

RECURSIVE FoldMax(_, _)
FoldMax(S, acc) ==
    IF S = {} THEN acc
    ELSE LET v == CHOOSE v \in S : TRUE IN FoldMax(S \ {v}, Max2(v, acc))

TotalPoints(lines) == SumTo([i \in 1..Len(lines) |-> Len(lines[i])], Len(lines))

----------------------------------------------------------------------------
(* save_image *)

\* `if line.len() < 2 { continue; }`: the strokes both loops look at.
NonDegenerate(line) == Len(line) >= 2

\* The points the bounding-box loop visits.
BoundsPoints(lines) ==
    UNION {{lines[i][j] : j \in 1..Len(lines[i])} :
              i \in {k \in 1..Len(lines) : NonDegenerate(lines[k])}}

\* Mutant: the bounding box without `max_x += 1.0; max_y += 1.0`.
BBoxNotExpanded(lines) ==
    LET pts == BoundsPoints(lines)
    IN [min_x |-> FoldMin({p[1] : p \in pts}, Huge),
        max_x |-> FoldMax({p[1] : p \in pts}, -Huge),
        min_y |-> FoldMin({p[2] : p \in pts}, Huge),
        max_y |-> FoldMax({p[2] : p \in pts}, -Huge)]

\* Mutant: the bounding box over every stroke, degenerate ones included.
BBoxAllStrokes(lines) ==
    LET pts == UNION {{lines[i][j] : j \in 1..Len(lines[i])} : i \in 1..Len(lines)}
    IN [min_x |-> FoldMin({p[1] : p \in pts}, Huge),
        max_x |-> FoldMax({p[1] : p \in pts}, -Huge) + Scale,
        min_y |-> FoldMin({p[2] : p \in pts}, Huge),
        max_y |-> FoldMax({p[2] : p \in pts}, -Huge) + Scale]

\* min_x, max_x, min_y, max_y after the first loop and the two `+= 1.0`.
BBox(lines) ==
    LET pts == BoundsPoints(lines)
    IN [min_x |-> FoldMin({p[1] : p \in pts}, Huge),
        max_x |-> FoldMax({p[1] : p \in pts}, -Huge) + Scale,
        min_y |-> FoldMin({p[2] : p \in pts}, Huge),
        max_y |-> FoldMax({p[2] : p \in pts}, -Huge) + Scale]

\* f32::ceil of a non-negative value given in grid units, then `as u32`.
Ceil(n) == (n + Scale - 1) \div Scale

\* pixel_steps of one segment.
PixelSteps(pt_a, pt_b) ==
    LET dx == pt_b[1] - pt_a[1]
        dy == pt_b[2] - pt_a[2]
    IN Ceil(Max2(Abs(dx), Abs(dy)))

\* `((num / den) * size as f32) as u32`: division by zero gives an infinity or
\* a NaN, and the cast truncates toward zero, saturates, and sends NaN to 0.
CastIndex(num, den, size) ==
    IF den = 0
    THEN IF num > 0 /\ size > 0 THEN U32Saturated ELSE 0
    ELSE LET n == IF den < 0 THEN -(num * size) ELSE num * size
             d == Abs(den)
         IN IF n <= 0 THEN 0 ELSE n \div d

\* The pixel index computed for one step of one segment.
PixelAt(pt_a, pt_b, step, pixel_steps, bb, raster_size) ==
    LET dx == pt_b[1] - pt_a[1]
        dy == pt_b[2] - pt_a[2]
        \* x - min_x and y - min_y, in units of 1 / (Scale * pixel_steps)
        nx == (pt_a[1] - bb.min_x) * pixel_steps + dx * step
        ny == (pt_a[2] - bb.min_y) * pixel_steps + dy * step
    IN <<CastIndex(nx, (bb.max_x - bb.min_x) * pixel_steps, raster_size[1]),
         CastIndex(ny, (bb.max_y - bb.min_y) * pixel_steps, raster_size[2])>>

\* The pixel indices of `for step in 0..pixel_steps`, in order.
SegmentPixels(pt_a, pt_b, bb, raster_size) ==
    LET pixel_steps == PixelSteps(pt_a, pt_b)
    IN [s \in 1..pixel_steps |->
            PixelAt(pt_a, pt_b, s - 1, pixel_steps, bb, raster_size)]

\* `line.iter().zip(line.iter().skip(1))`
Segments(line) == [k \in 1..(Len(line) - 1) |-> <<line[k], line[k + 1]>>]

\* Every pixel index the drawing loop computes.
Plotted(lines, raster_size) ==
    LET bb == BBox(lines)
    IN UNION {UNION {LET sp == SegmentPixels(Segments(lines[i])[k][1],
                                              Segments(lines[i])[k][2],
                                              bb, raster_size)
                     IN {sp[s] : s \in 1..Len(sp)} :
                        k \in 1..(Len(lines[i]) - 1)} :
                 i \in {j \in 1..Len(lines) : NonDegenerate(lines[j])}}

\* Mutant: the image created with its dimensions swapped.
NewImageSwapped(raster_size) ==
    [width |-> raster_size[2], height |-> raster_size[1], fg |-> {}]

\* image::RgbImage::new(raster_size.0, raster_size.1): all pixels black.
NewImage(raster_size) ==
    [width |-> raster_size[1], height |-> raster_size[2], fg |-> {}]

\* The bounds check of get_pixel_mut (the indices are u32, so never negative).
InImage(pix, image) == pix[1] < image.width /\ pix[2] < image.height

\* save_image up to the encoding of the file: the image, or a panic at the
\* first pixel index outside it.
save_image(lines, raster_size) ==
    LET blank == NewImage(raster_size)
        pix == Plotted(lines, raster_size)
    IN IF \A p \in pix : InImage(p, blank)
       THEN [panicked |-> FALSE, img |-> Some([blank EXCEPT !.fg = pix])]
       ELSE [panicked |-> TRUE, img |-> NoImage]

----------------------------------------------------------------------------
(* GestureDatasetApp::update *)

\* `if drawing.is_empty() { drawing.push(vec![]); }` left out.
EnsureOpenStrokeMissing(d) == d

\* `if drawing.is_empty() { drawing.push(vec![]); }`
EnsureOpenStroke(d) == IF d = <<>> THEN <<<<>>>> ELSE d

\* Mutant: the pointer position pushed without comparing it to the last point.
PushPointAlways(current_line, canvas_pos) == Append(current_line, canvas_pos)

\* Mutant: the pointer position overwrites the last point of the open stroke.
PushPointOverwrite(current_line, canvas_pos) ==
    IF current_line = <<>>
    THEN <<canvas_pos>>
    ELSE [current_line EXCEPT ![Len(current_line)] = canvas_pos]

\* `if current_line.last() != Some(&canvas_pos) { current_line.push(canvas_pos); }`
PushPoint(current_line, canvas_pos) ==
    IF current_line = <<>> \/ Last(current_line) # canvas_pos
    THEN Append(current_line, canvas_pos)
    ELSE current_line

\* Mutant: a new stroke pushed on every frame without a pointer position.
EndStrokeAlways(d) == Append(d, <<>>)

\* `else if !current_line.is_empty() { drawing.push(vec![]); }`
EndStroke(d) == IF Last(d) # <<>> THEN Append(d, <<>>) ELSE d

\* The canvas part of the frame: the open stroke is made to exist, then the
\* pointer position (None when the canvas is not being dragged) is handled.
\* `drawing.last_mut().unwrap()` panics on an empty drawing.
Canvas(d, pointer_pos) ==
    LET d1 == EnsureOpenStroke(d)
    IN IF d1 = <<>>
       THEN [drawing |-> d1, changed |-> FALSE, panicked |-> TRUE]
       ELSE IF pointer_pos # None
            THEN LET d2 == [d1 EXCEPT ![Len(d1)] = PushPoint(Last(d1), pointer_pos)]
                 IN [drawing |-> d2, changed |-> d2 # d1, panicked |-> FALSE]
            ELSE LET d2 == EndStroke(d1)
                 IN [drawing |-> d2, changed |-> d2 # d1, panicked |-> FALSE]

\* One call of update: the sliders, the two buttons, the canvas, in this order.
\* A panic inside save_image ends the frame (and the process) where it is.
Update(clear_clicked, save_clicked, w, h, pointer_pos) ==
    LET d_clear == IF clear_clicked THEN <<>> ELSE drawing
        saved == IF save_clicked
                 THEN save_image(d_clear, <<w, h>>)
                 ELSE [panicked |-> FALSE, img |-> NoImage]
        d_save == IF save_clicked THEN <<>> ELSE d_clear
        c == Canvas(d_save, pointer_pos)
    IN /\ ~panicked
       /\ width' = w
       /\ height' = h
       /\ input' = [clear |-> clear_clicked, save |-> save_clicked,
                    pointer_pos |-> pointer_pos]
       /\ IF saved.panicked
          THEN /\ panicked' = TRUE
               /\ drawing' = d_clear
               /\ sample_count' = sample_count
               /\ changed' = FALSE
               /\ img' = NoImage
          ELSE /\ panicked' = c.panicked
               /\ drawing' = c.drawing
               /\ sample_count' = IF save_clicked THEN sample_count + 1 ELSE sample_count
               /\ changed' = c.changed
               /\ img' = saved.img
       /\ Len(drawing') <= MaxStrokes
       /\ TotalPoints(drawing') <= MaxPoints

----------------------------------------------------------------------------
(* Inputs *)

\* Pointer positions and sample points, in grid units.
Points == {<<0, 0>>, <<1, 0>>, <<MaxCoord, 0>>, <<0, MaxCoord>>, <<1, 1>>,
           <<MaxCoord, MaxCoord>>}

PointerPositions == {<<0, 0>>, <<1, 1>>, <<MaxCoord, 0>>}

SliderValues == SliderMin..MaxSize

----------------------------------------------------------------------------
(* The application: one action per kind of frame.  The pointer acts on one  *)
(* widget per frame: a button, a slider or the canvas.                      *)

Init ==
    /\ drawing = <<>>
    /\ width = DefaultWidth
    /\ height = DefaultHeight
    /\ sample_count = 0
    /\ input = [clear |-> FALSE, save |-> FALSE, pointer_pos |-> None]
    /\ changed = FALSE
    /\ panicked = FALSE
    /\ img = NoImage

ClearPainting == Update(TRUE, FALSE, width, height, None)

Save == sample_count < MaxSamples /\ Update(FALSE, TRUE, width, height, None)

SetWidth == \E w \in SliderValues : Update(FALSE, FALSE, w, height, None)

SetHeight == \E h \in SliderValues : Update(FALSE, FALSE, width, h, None)

PointerDrag == \E p \in PointerPositions : Update(FALSE, FALSE, width, height, p)

PointerIdle == Update(FALSE, FALSE, width, height, None)

Next ==
    \/ ClearPainting
    \/ Save
    \/ SetWidth
    \/ SetHeight
    \/ PointerDrag
    \/ PointerIdle

Spec == Init /\ [][Next]_vars

----------------------------------------------------------------------------
(* The rasterizer alone: save_image applied to every sample and raster size *)
(* of a bounded set, samples the canvas cannot produce included.            *)

\* The stroke lengths of a sample.
LenVectors ==
    UNION {{l \in [1..k -> 0..MaxPoints] : SumTo(l, k) <= MaxPoints} : k \in 0..MaxStrokes}

SampleOf(l, flat) ==
    [i \in 1..Len(l) |-> SubSeq(flat, SumTo(l, i - 1) + 1, SumTo(l, i))]

Samples ==
    UNION {{SampleOf(l, flat) : flat \in [1..SumTo(l, Len(l)) -> Points]} : l \in LenVectors}

\* The sample and the raster size of the spec's worked example.
ExampleSample == << <<<<0, 0>>, <<10 * Scale, 0>>>> >>
ExampleSize == <<10, 10>>

RasterSizes == ((0..MaxSize) \X (0..MaxSize)) \cup {ExampleSize}

Rasterized == img # NoImage \/ panicked

RasterInit ==
    /\ drawing \in Samples \cup {ExampleSample}
    /\ \E raster_size \in RasterSizes : width = raster_size[1] /\ height = raster_size[2]
    /\ sample_count = 0
    /\ input = [clear |-> FALSE, save |-> FALSE, pointer_pos |-> None]
    /\ changed = FALSE
    /\ panicked = FALSE
    /\ img = NoImage

Rasterize ==
    /\ ~Rasterized
    /\ LET r == save_image(drawing, <<width, height>>)
       IN /\ img' = r.img
          /\ panicked' = r.panicked
    /\ UNCHANGED <<drawing, width, height, sample_count, input, changed>>

RasterNext == Rasterize

RasterSpec == RasterInit /\ [][RasterNext]_vars

----------------------------------------------------------------------------
(* Properties of save_image, checked under RasterSpec *)

HasNonDegenerate(lines) == \E i \in 1..Len(lines) : NonDegenerate(lines[i])

AllDegenerate(lines) == \A i \in 1..Len(lines) : ~NonDegenerate(lines[i])

WithoutDegenerate(lines) == SelectSeq(lines, NonDegenerate)

C2_FullWidthRun ==
    (Rasterized /\ drawing = ExampleSample /\ <<width, height>> = ExampleSize) =>
        /\ ~panicked
        /\ \E row \in 0..9 : img[1].fg = {<<col, row>> : col \in 0..9}

\* C3: the pixels plotted for the successive steps of a segment are equal or
\* adjacent (differ by at most 1 in each of px and py), whatever the raster size.
C3_GapFree ==
    Rasterized =>
        \A i \in {j \in 1..Len(drawing) : NonDegenerate(drawing[j])} :
            \A k \in 1..(Len(drawing[i]) - 1) :
                LET sp == SegmentPixels(drawing[i][k], drawing[i][k + 1],
                                        BBox(drawing), <<width, height>>)
                IN \A s \in 1..(Len(sp) - 1) :
                       /\ Abs(sp[s + 1][1] - sp[s][1]) <= 1
                       /\ Abs(sp[s + 1][2] - sp[s][2]) <= 1

\* C4: a sample with no stroke, or with strokes of fewer than 2 points only,
\* rasterizes without a panic to an image of exactly width x height pixels,
\* none of them set.
C4_DegenerateBlank ==
    (Rasterized /\ AllDegenerate(drawing)) =>
        /\ ~panicked
        /\ img = Some([width |-> width, height |-> height, fg |-> {}])

\* A sample holding a one-point stroke has been rasterized onto a raster that
\* is not square.
C4_Witness ==
    /\ Rasterized /\ ~panicked
    /\ AllDegenerate(drawing)
    /\ \E i \in 1..Len(drawing) : Len(drawing[i]) = 1
    /\ img[1].width # img[1].height

\* C9: strokes of fewer than 2 points contribute nothing: the bounding box and
\* the outcome of save_image are those of the sample with these strokes removed.
C9_DegenerateIgnored ==
    Rasterized =>
        /\ BBox(drawing) = BBox(WithoutDegenerate(drawing))
        /\ [panicked |-> panicked, img |-> img]
               = save_image(WithoutDegenerate(drawing), <<width, height>>)

\* A sample has been rasterized that holds a non-degenerate stroke and a
\* one-point stroke lying outside the bounding box, and pixels were set.
C9_Witness ==
    /\ Rasterized /\ ~panicked
    /\ HasNonDegenerate(drawing)
    /\ \E i \in 1..Len(drawing) :
           /\ Len(drawing[i]) = 1
           /\ \/ drawing[i][1][1] >= BBox(drawing).max_x
              \/ drawing[i][1][2] >= BBox(drawing).max_y
    /\ img[1].fg # {}

----------------------------------------------------------------------------
(* Properties of update, checked under Spec *)

\* The open stroke: the last one, empty when there is none yet.
OpenStroke(d) == IF d = <<>> THEN <<>> ELSE Last(d)

NoAdjacentDuplicates ==
    \A i \in 1..Len(drawing) :
        \A j \in 1..(Len(drawing[i]) - 1) : drawing[i][j] # drawing[i][j + 1]

\* A frame with a pointer position p appends p to the open stroke, and reports
\* a change, exactly when the open stroke is empty or ends in another point.
PointerFrameAppendsIffNew ==
    (input'.pointer_pos # None /\ ~input'.clear /\ ~input'.save) =>
        LET p == input'.pointer_pos
            open == OpenStroke(drawing)
            base == IF drawing = <<>> THEN <<<<>>>> ELSE drawing
        IN IF open = <<>> \/ Last(open) # p
           THEN /\ drawing' = [base EXCEPT ![Len(base)] = Append(open, p)]
                /\ changed'
           ELSE /\ drawing' = base
                /\ ~changed'

\* C5: begin_or_continue(p) appends p iff the open stroke is empty or its last
\* point differs from p, otherwise it changes and reports nothing; hence no
\* stroke ever holds two equal adjacent points.
C5_AppendOnlyNewPoint ==
    /\ []NoAdjacentDuplicates
    /\ [][PointerFrameAppendsIffNew]_vars

\* The pointer was reported at the point the open stroke already ends in, and
\* nothing was appended.
C5_Witness ==
    /\ input.pointer_pos # None
    /\ ~changed
    /\ drawing # <<>>
    /\ Last(drawing) # <<>>
    /\ Last(Last(drawing)) = input.pointer_pos

NoEmptyInnerStroke == \A i \in 1..(Len(drawing) - 1) : drawing[i] # <<>>

\* A frame without pointer position and without a button click, on an empty
\* open stroke, changes nothing.
IdleFrameOnEmptyStrokeIsNoOp ==
    (/\ input'.pointer_pos = None /\ ~input'.clear /\ ~input'.save
     /\ drawing # <<>> /\ Last(drawing) = <<>>) =>
        /\ drawing' = drawing
        /\ ~changed'

\* C6: end_stroke on an already empty open stroke is a no-op, so no stroke but
\* the last one is ever empty.
C6_EndStrokeIdempotent ==
    /\ []NoEmptyInnerStroke
    /\ [][IdleFrameOnEmptyStrokeIsNoOp]_vars

\* After a stroke was sealed, a further frame without pointer position left
\* the sample as it was.
C6_Witness ==
    /\ input.pointer_pos = None /\ ~input.clear /\ ~input.save
    /\ ~changed
    /\ Len(drawing) >= 2
    /\ Last(drawing) = <<>>

\* C7: at the end of a frame that cleared the drawing (Clear Painting clicked,
\* or Save returned), the drawing is exactly one empty stroke.
C7_ClearLeavesOneEmptyStroke ==
    /\ input.clear => (~panicked /\ drawing = <<<<>>>>)
    /\ (input.save /\ ~panicked) => drawing = <<<<>>>>

\* Save rasterized a sample that set pixels, and cleared it.
C7_Witness ==
    /\ input.save /\ ~panicked
    /\ img # NoImage
    /\ img[1].fg # {}
    /\ drawing = <<<<>>>>

\* Everything recorded in d is still in e: the sealed strokes as they were, at
\* their places, the open stroke of d a prefix of the stroke at its place, and
\* unchanged if it was sealed.
Preserved(d, e) ==
    \/ d = <<>>
    \/ /\ Len(e) >= Len(d)
       /\ \A i \in 1..(Len(d) - 1) : e[i] = d[i]
       /\ Len(e[Len(d)]) >= Len(Last(d))
       /\ SubSeq(e[Len(d)], 1, Len(Last(d))) = Last(d)
       /\ Len(e) > Len(d) => e[Len(d)] = Last(d)

\* C8: a frame that is neither a Clear nor a Save leaves every sealed stroke
\* unchanged and the open stroke's points an unchanged prefix; points are
\* removed or altered by Clear and Save only.
C8_RecordedPointsPreserved ==
    [][Preserved(drawing, drawing') \/ input'.clear \/ input'.save]_vars

\* A point was appended to an open stroke that already held one, after an
\* earlier stroke had been sealed.
C8_Witness ==
    /\ input.pointer_pos # None /\ changed
    /\ Len(drawing) >= 2
    /\ Len(Last(drawing)) >= 2

\* C10: whenever Save calls save_image, the raster size passed has
\* width >= 1 and height >= 1.
C10_RasterSizePositive == input.save => (width >= 1 /\ height >= 1)

====
